---- MODULE Spec2Model ----
(***************************************************************************)
(* A model of the two line parsers of unixism: dns::resolv::parse          *)
(* (src/src/dns/resolv.rs) and hosts::parse (src/src/hosts/mod.rs).        *)
(*                                                                         *)
(* Text.  A Rust &str is modelled as a sequence of atoms.  An atom is a   *)
(* TLA+ string standing for a fixed run of characters: the one-character  *)
(* atoms " ", "\t", "#", "/", ":", "+", and multi-character atoms          *)
(* ("nameserver", "debug", "192.168.0.100", "x", ...) that contain none   *)
(* of those characters.  Among the atoms a line is built from, none is a  *)
(* prefix of another and no concatenation spells a keyword, so equality,  *)
(* starts_with, split and trim on the atom sequence agree with the same   *)
(* operation on the text the sequence spells.                             *)
(***************************************************************************)
EXTENDS Integers, Sequences, FiniteSets, TLC

\* The largest number of lines the reader delivers before its end.
MaxLines == 2

\* The largest number of lines delivered by a stream whose reads then fail
\* on every attempt.
MaxFailingPrefix == 1

(***************************************************************************)
(* Rust's Result and Option, with a fixed shape so that any two results   *)
(* can be compared: Option is a sequence of length 0 or 1.                 *)
(***************************************************************************)
None == <<>>

Some(v) == <<v>>

Ok(v) == [ok |-> TRUE, val |-> Some(v), err |-> None]

Err(e) == [ok |-> FALSE, val |-> None, err |-> Some(e)]

\* ParseConfigError / ParseHostsError: the variant, and what it carries.
UnknownOption(text) == [kind |-> "UnknownOption", text |-> text, detail |-> ""]

IPAddrParseError == [kind |-> "IPAddrParseError", text |-> <<>>, detail |-> "Ip"]

ParseIntError(detail) == [kind |-> "ParseIntError", text |-> <<>>, detail |-> detail]

IOError == [kind |-> "IOError", text |-> <<>>, detail |-> ""]

(***************************************************************************)
(* The str operations the parsers use.                                     *)
(***************************************************************************)
\* char::is_whitespace, for the characters a line can hold.
WhiteSpace == {" ", "\t"}

is_empty(s) == Len(s) = 0

starts_with(s, p) == Len(s) >= Len(p) /\ SubSeq(s, 1, Len(p)) = p

RECURSIVE trim_start(_)
trim_start(s) ==
    IF s # <<>> /\ Head(s) \in WhiteSpace THEN trim_start(Tail(s)) ELSE s

RECURSIVE trim_end(_)
trim_end(s) ==
    IF s # <<>> /\ s[Len(s)] \in WhiteSpace
    THEN trim_end(SubSeq(s, 1, Len(s) - 1))
    ELSE s

trim(s) == trim_end(trim_start(s))

\* The index of the first occurrence of pattern p in s, 0 when there is none.
find(s, p) ==
    LET hits == {i \in 1..(Len(s) - Len(p) + 1) : SubSeq(s, i, i + Len(p) - 1) = p}
    IN  IF hits = {} THEN 0 ELSE CHOOSE i \in hits : \A j \in hits : i <= j

\* str::split_once(p).unwrap_or_default(): <<before, after>>, two empty
\* strings when p does not occur.
split_once(s, p) ==
    LET i == find(s, p)
    IN  IF i = 0 THEN << <<>>, <<>> >>
        ELSE << SubSeq(s, 1, i - 1), SubSeq(s, i + Len(p), Len(s)) >>

\* str::split(p), collected: every segment between occurrences of p, empty
\* segments included; a string without p is its only segment.
RECURSIVE split(_, _)
split(s, p) ==
    LET i == find(s, p)
    IN  IF i = 0 THEN <<s>>
        ELSE <<SubSeq(s, 1, i - 1)>> \o split(SubSeq(s, i + Len(p), Len(s)), p)

\* str::split_whitespace(), collected: the maximal runs of non-whitespace.
RECURSIVE split_whitespace(_)
split_whitespace(s) ==
    LET t == trim_start(s)
        stops == {i \in 1..Len(t) : t[i] \in WhiteSpace}
        n == IF stops = {} THEN Len(t)
             ELSE (CHOOSE i \in stops : \A j \in stops : i <= j) - 1
    IN  IF t = <<>> THEN <<>>
        ELSE <<SubSeq(t, 1, n)>> \o split_whitespace(SubSeq(t, n + 1, Len(t)))

(***************************************************************************)
(* The standard library's parsers of an address and of a usize.            *)
(***************************************************************************)
\* The address texts of the model.  Each has a three-digit first and last
\* octet, so no digit put before or after it gives another address.
IpAtoms == {"192.168.0.100", "255.255.255.128"}

IpAddr(a) == [v4 |-> a]

\* str::parse::<net::IpAddr>(): the whole string must be one address.
parse_IpAddr(s) ==
    IF Len(s) = 1 /\ s[1] \in IpAtoms THEN Ok(IpAddr(s[1])) ELSE Err(IPAddrParseError)

DigitAtoms == {"5"}

DigitValue(a) == CASE a = "5" -> 5

RECURSIVE DecimalValue(_)
DecimalValue(ds) ==
    IF ds = <<>> THEN 0
    ELSE 10 * DecimalValue(SubSeq(ds, 1, Len(ds) - 1)) + DigitValue(ds[Len(ds)])

\* str::parse::<usize>(): decimal digits after an optional "+".  (A value
\* over usize::MAX needs twenty digits, more than a line of the model holds.)
parse_usize(s) ==
    LET digits == IF s # <<>> /\ Head(s) = "+" THEN Tail(s) ELSE s
    IN  IF s = <<>> THEN Err(ParseIntError("Empty"))
        ELSE IF digits = <<>> \/ \E i \in 1..Len(digits) : digits[i] \notin DigitAtoms
             THEN Err(ParseIntError("InvalidDigit"))
             ELSE Ok(DecimalValue(digits))

\* A collect that goes through every result and keeps the last error.
RECURSIVE collect_results_last_error(_)
collect_results_last_error(rs) ==
    IF rs = <<>> THEN Ok(<<>>)
    ELSE LET rest == collect_results_last_error(Tail(rs))
         IN  IF ~rest.ok THEN rest
             ELSE IF ~Head(rs).ok THEN Head(rs)
                  ELSE Ok(<<Head(rs).val[1]>> \o rest.val[1])

\* Iterator::collect::<Result<Vec<_>, _>>() over results already computed:
\* the first error in order, otherwise all the values.
RECURSIVE collect_results(_)
collect_results(rs) ==
    IF rs = <<>> THEN Ok(<<>>)
    ELSE IF ~Head(rs).ok THEN Head(rs)
         ELSE LET rest == collect_results(Tail(rs))
              IN  IF rest.ok THEN Ok(<<Head(rs).val[1]>> \o rest.val[1]) ELSE rest

(***************************************************************************)
(* dns/resolv.rs: IPPair, ConfigOption, ConfigItem, Config.                *)
(***************************************************************************)
IPPair(ip, mask) == [ip |-> ip, mask |-> mask]

\* An IPPair whose netmask, when it is no address, is left out.
IPPair_from_str_mask_dropped(s) ==
    LET pair == split(s, <<"/">>)
        first == parse_IpAddr(pair[1])
        second == parse_IpAddr(pair[2])
    IN  IF ~first.ok THEN first
        ELSE IF Len(pair) >= 2 /\ second.ok
             THEN Ok(IPPair(first.val[1], Some(second.val[1])))
             ELSE Ok(IPPair(first.val[1], None))

IPPair_from_str(s) ==
    LET pair == split(s, <<"/">>)
        first == parse_IpAddr(pair[1])
        second == parse_IpAddr(pair[2])
    IN  IF ~first.ok THEN first
        ELSE IF Len(pair) >= 2
             THEN IF ~second.ok THEN second
                  ELSE Ok(IPPair(first.val[1], Some(second.val[1])))
             ELSE Ok(IPPair(first.val[1], None))

\* ConfigOption: the variant and, for NDots, Timeout and Attempts, its number.
ConfigOption(tag, n) == [tag |-> tag, n |-> n]

FlagTable ==
    { <<"debug", "DEBUG">>, <<"rotate", "ROTATE">>, <<"no-aaaa", "NOAAAA">>,
      <<"no-check-names", "NOCHECKNAME">>, <<"inet6", "INET6">>,
      <<"ip6-bytestring", "IP6BSTRING">>, <<"ip6-dotint", "IP6DOTINT">>,
      <<"no-ip6-dotint", "NOIP6DOTINT">>, <<"edns0", "EDNS0">>,
      <<"single-request", "SNGLKUP">>, <<"single-request-reopen", "SNGLKUPREOP">>,
      <<"no-tld-query", "NOTLDQUERY">>, <<"use-vc", "USEVC">>,
      <<"no-reload", "NORELOAD">>, <<"trust-ad", "TRUSTAD">> }

NumberTable ==
    { <<"ndots", "NDots">>, <<"timeout", "Timeout">>, <<"attempts", "Attempts">> }

Lookup(table, key) == (CHOOSE e \in table : <<e[1]>> = key)[2]

InTable(table, key) == \E e \in table : <<e[1]>> = key

ConfigOption_from_str(s) ==
    LET pair == split(s, <<":">>)
        key == pair[1]
        number == parse_usize(IF Len(pair) >= 2 THEN pair[2] ELSE <<>>)
    IN  IF InTable(FlagTable, key) THEN Ok(ConfigOption(Lookup(FlagTable, key), None))
        ELSE IF InTable(NumberTable, key)
             THEN IF ~number.ok THEN number
                  ELSE Ok(ConfigOption(Lookup(NumberTable, key), Some(number.val[1])))
             ELSE Err(UnknownOption(key))

\* ConfigItem: the variant and its payload, always a sequence (of one
\* address, of domains, of IPPairs, of ConfigOptions).
ConfigItem(tag, val) == [tag |-> tag, val |-> val]

ConfigItem_from_str(s) ==
    LET after(kw) == trim(split_once(s, <<kw>>)[2])
        nameserver == parse_IpAddr(after("nameserver"))
        pairs == split_whitespace(after("sortlist"))
        lists == collect_results([i \in 1..Len(pairs) |-> IPPair_from_str(pairs[i])])
        opts == split_whitespace(after("options"))
        options == collect_results(
                       [i \in 1..Len(opts) |-> ConfigOption_from_str(opts[i])])
    IN  IF starts_with(s, <<"nameserver">>)
        THEN IF nameserver.ok THEN Ok(ConfigItem("Nameserver", nameserver.val)) ELSE nameserver
        ELSE IF starts_with(s, <<"domain">>)
        THEN Ok(ConfigItem("Domain", <<after("domain")>>))
        ELSE IF starts_with(s, <<"search">>)
        THEN Ok(ConfigItem("SearchDomains", split_whitespace(after("search"))))
        ELSE IF starts_with(s, <<"sortlist">>)
        THEN IF lists.ok THEN Ok(ConfigItem("SortList", lists.val[1])) ELSE lists
        ELSE IF starts_with(s, <<"options">>)
        THEN IF options.ok THEN Ok(ConfigItem("Options", options.val[1])) ELSE options
        ELSE Err(UnknownOption(s))

Config(ns, sd, sl, op) ==
    [nameservers |-> ns, search_domains |-> sd, sort_list |-> sl, options |-> op]

\* A fold in which a domain line replaces the search list, as it does in
\* the resolver itself.
RECURSIVE from_items_domain_overwrites(_)
from_items_domain_overwrites(items) ==
    IF items = <<>> THEN Config(<<>>, <<>>, <<>>, <<>>)
    ELSE LET config == from_items_domain_overwrites(SubSeq(items, 1, Len(items) - 1))
             item == items[Len(items)]
         IN  CASE item.tag = "Nameserver" ->
                    [config EXCEPT !.nameservers = Append(@, item.val[1])]
               [] item.tag = "SearchDomains" ->
                    [config EXCEPT !.search_domains = @ \o item.val]
               [] item.tag = "Domain" ->
                    [config EXCEPT !.search_domains = <<item.val[1]>>]
               [] item.tag = "SortList" ->
                    [config EXCEPT !.sort_list = @ \o item.val]
               [] item.tag = "Options" ->
                    [config EXCEPT !.options = @ \o item.val]

RECURSIVE from_items(_)
from_items(items) ==
    IF items = <<>> THEN Config(<<>>, <<>>, <<>>, <<>>)
    ELSE LET config == from_items(SubSeq(items, 1, Len(items) - 1))
             item == items[Len(items)]
         IN  CASE item.tag = "Nameserver" ->
                    [config EXCEPT !.nameservers = Append(@, item.val[1])]
               [] item.tag = "SearchDomains" ->
                    [config EXCEPT !.search_domains = @ \o item.val]
               [] item.tag = "Domain" ->
                    [config EXCEPT !.search_domains = Append(@, item.val[1])]
               [] item.tag = "SortList" ->
                    [config EXCEPT !.sort_list = @ \o item.val]
               [] item.tag = "Options" ->
                    [config EXCEPT !.options = @ \o item.val]

(***************************************************************************)
(* hosts/mod.rs: Host.                                                     *)
(***************************************************************************)
Host(ip, names) == [ip |-> ip, names |-> names]

\* A Host that must have a name.
Host_from_str_needs_name(s) ==
    LET line == split_whitespace(trim(s))
        ip == parse_IpAddr(IF line = <<>> THEN <<>> ELSE Head(line))
    IN  IF ~ip.ok \/ Len(line) < 2 THEN Err(IPAddrParseError)
        ELSE Ok(Host(ip.val[1], Tail(line)))

Host_from_str(s) ==
    LET line == split_whitespace(trim(s))
        ip == parse_IpAddr(IF line = <<>> THEN <<>> ELSE Head(line))
    IN  IF ~ip.ok THEN ip
        ELSE Ok(Host(ip.val[1], IF line = <<>> THEN <<>> ELSE Tail(line)))

(***************************************************************************)
(* The reader.  BufReader::lines() yields one io::Result<String> per call  *)
(* of next(): Ok(line) for a line that was read and decoded, Err for a     *)
(* line whose bytes are not UTF-8 (the bytes are consumed all the same) or *)
(* for a read that failed.  A stream is the sequence of these results,     *)
(* followed by its end: end-of-file, or a read that fails on every attempt *)
(* (a directory opened as a file, a device that went away).                *)
(***************************************************************************)
OkLine(text) == [ok |-> TRUE, text |-> text]

\* A line that fails to decode; text is what a lossy decoding would give.
BadLine(text) == [ok |-> FALSE, text |-> text]

\* A read that fails without delivering bytes.
ReadFailure == [ok |-> FALSE, text |-> <<>>]

ip1 == "192.168.0.100"

ip2 == "255.255.255.128"

\* s1, s2, ... joined by one space.
RECURSIVE Join(_)
Join(ts) ==
    IF ts = <<>> THEN <<>>
    ELSE IF Len(ts) = 1 THEN ts[1]
         ELSE ts[1] \o <<" ">> \o Join(Tail(ts))

\* Lines that the filter of both parsers is written to discard.
NoiseLines == { <<>>, <<" ">>, <<"#", "x">>, <<" ", "x">> }

SortTokens ==
    { <<ip1>>, <<ip1, "/", ip2>>, <<ip2, "/">>, <<ip1, "/", "x">>,
      <<ip2, "/", ip1, "/", "x">>, <<"x">> }

OptionTokens ==
    { <<"debug">>, <<"debug", ":", "5">>, <<"ndots", ":", "5">>,
      <<"timeout", ":", "5", "5">>, <<"attempts", ":", "+", "5">>,
      <<"ndots">>, <<"ndots", ":">>, <<"ndots", ":", "x">>,
      <<"ndots", ":", "5", ":", "x">>, <<"x">> }

ResolvLines ==
    NoiseLines
    \cup { <<"\t">>, <<"\t", "nameserver", " ", ip1>> }
    \cup { <<"nameserver">> \o glue \o t :
             glue \in { <<>>, <<" ">> }, t \in { <<ip1>>, <<"x">> } }
    \cup { <<"nameserver">>, <<"nameserver", " ", ip2>>,
           <<"nameserver", " ", ip1, " ", "x">>, <<"nameserver", "\t", ip2, " ">> }
    \cup { <<"domain">>, <<"domain", "x">>, <<"domain", " ", "x">>,
           <<"domain", " ", "y", " ", "x">> }
    \cup { <<"search">>, <<"search", "x">>, <<"search", " ", "x">>,
           <<"search", " ", "y", " ", "\t", "x">> }
    \cup { <<"sortlist", " ">> \o t : t \in SortTokens }
    \cup { <<"sortlist">>, <<"sortlist", ip1>>,
           Join(<< <<"sortlist">>, <<ip1, "/", ip2>>, <<ip2>> >>),
           Join(<< <<"sortlist">>, <<ip1>>, <<"x">>, <<ip2>> >>) }
    \cup { <<"options", " ">> \o t : t \in OptionTokens }
    \cup { <<"options">>, <<"options", "debug">>,
           Join(<< <<"options">>, <<"trust-ad">>, <<"timeout", ":", "5">>, <<"debug">> >>),
           Join(<< <<"options">>, <<"x">>, <<"ndots", ":", "x">> >>),
           Join(<< <<"options">>, <<"ndots", ":", "x">>, <<"x">> >>) }
    \cup { <<"x">>, <<ip1>> }

HostsLines ==
    NoiseLines
    \cup { <<"\t">>, <<"\t", ip1, " ", "x">> }
    \cup { <<ip1>>, <<ip1, " ">>, <<ip1, " ", "x">>, <<ip1, "\t", "x">>,
           <<ip2, " ", "y", " ", "x">>, <<ip1, " ", "x", " ", "x">>,
           <<ip2, " ", " ", "y", "\t">>, <<ip1, " ", "x", " ", "#", " ", "y">>,
           <<"x">>, <<"x", " ", ip1>>, <<ip1, "x">>, <<ip1, "/", ip2>> }

ResolvItems ==
    { OkLine(l) : l \in ResolvLines }
    \cup { ReadFailure, BadLine(<<"nameserver", " ", "<invalid-utf8>">>) }

HostsItems ==
    { OkLine(l) : l \in HostsLines }
    \cup { ReadFailure, BadLine(<<ip1, " ", "<invalid-utf8>">>) }

SeqsUpTo(S, n) == UNION { [1..k -> S] : k \in 0..n }

(***************************************************************************)
(* The state of one call of parse(reader).                                 *)
(***************************************************************************)
VARIABLES
    parser,   \* "resolv": dns::resolv::parse, "hosts": hosts::parse
    stream,   \* what the reader delivers, one result per call of next()
    tail,     \* what the reader does after that: "eof" or "err"
    pos,      \* the number of results of stream already taken
    pc,       \* "next": about to call lines().next(); "filter": a line is
              \* in the pipeline; "done": parse has returned
    cur,      \* the line in the pipeline, after map(Result::unwrap_or_default)
    items,    \* the Vec that collect() has built so far
    result    \* what parse returned

vars == <<parser, stream, tail, pos, pc, cur, items, result>>

NoResult == [ok |-> FALSE, val |-> None, err |-> None]

Init ==
    /\ parser \in {"resolv", "hosts"}
    /\ tail \in {"eof", "err"}
    /\ stream \in SeqsUpTo(IF parser = "resolv" THEN ResolvItems ELSE HostsItems,
                           IF tail = "eof" THEN MaxLines ELSE MaxFailingPrefix)
    /\ pos = 0
    /\ pc = "next"
    /\ cur = <<>>
    /\ items = <<>>
    /\ result = NoResult

\* A line that failed to decode, decoded lossily instead.
unwrap_or_lossy(r) == r.text

\* map(Result::unwrap_or_default)
unwrap_or_default(r) == IF r.ok THEN r.text ELSE <<>>

\* lines().next(), while the reader has something to return.
lines_next ==
    /\ pc = "next"
    /\ \/ /\ pos < Len(stream)
          /\ cur' = unwrap_or_default(stream[pos + 1])
          /\ pos' = pos + 1
       \/ /\ pos = Len(stream)
          /\ tail = "err"
          /\ cur' = unwrap_or_default(ReadFailure)
          /\ pos' = pos
    /\ pc' = "filter"
    /\ UNCHANGED <<parser, stream, tail, items, result>>

(***************************************************************************)
(* dns::resolv::parse                                                      *)
(***************************************************************************)
\* A filter without the test for comments.
resolv_keep_comments_parsed(line) ==
    ~is_empty(line) /\ ~starts_with(line, <<" ">>)

resolv_keep(line) ==
    ~is_empty(line) /\ ~starts_with(line, <<"#">>) /\ ~starts_with(line, <<" ">>)

\* One line through filter, map(parse::<ConfigItem>) and collect.
resolv_parse_line ==
    /\ parser = "resolv"
    /\ pc = "filter"
    /\ cur' = <<>>
    /\ IF ~resolv_keep(cur)
       THEN /\ pc' = "next"
            /\ UNCHANGED <<items, result>>
       ELSE LET item == ConfigItem_from_str(cur)
            IN  IF item.ok
                THEN /\ items' = Append(items, item.val[1])
                     /\ pc' = "next"
                     /\ UNCHANGED result
                ELSE /\ result' = Err(item.err[1])
                     /\ pc' = "done"
                     /\ UNCHANGED items
    /\ UNCHANGED <<parser, stream, tail, pos>>

\* lines() is exhausted: collect returns the Vec, and parse the Config.
resolv_parse_return ==
    /\ parser = "resolv"
    /\ pc = "next"
    /\ pos = Len(stream)
    /\ tail = "eof"
    /\ result' = Ok(from_items(items))
    /\ pc' = "done"
    /\ UNCHANGED <<parser, stream, tail, pos, cur, items>>

(***************************************************************************)
(* hosts::parse                                                            *)
(***************************************************************************)
hosts_keep(line) ==
    ~is_empty(line) /\ ~starts_with(line, <<"#">>) /\ ~starts_with(line, <<" ">>)

\* One line through filter, map(parse::<Host>) and collect.
hosts_parse_line ==
    /\ parser = "hosts"
    /\ pc = "filter"
    /\ cur' = <<>>
    /\ IF ~hosts_keep(cur)
       THEN /\ pc' = "next"
            /\ UNCHANGED <<items, result>>
       ELSE LET host == Host_from_str(cur)
            IN  IF host.ok
                THEN /\ items' = Append(items, host.val[1])
                     /\ pc' = "next"
                     /\ UNCHANGED result
                ELSE /\ result' = Err(host.err[1])
                     /\ pc' = "done"
                     /\ UNCHANGED items
    /\ UNCHANGED <<parser, stream, tail, pos>>

\* lines() is exhausted: collect returns the Vec, and parse its iterator.
hosts_parse_return ==
    /\ parser = "hosts"
    /\ pc = "next"
    /\ pos = Len(stream)
    /\ tail = "eof"
    /\ result' = Ok(items)
    /\ pc' = "done"
    /\ UNCHANGED <<parser, stream, tail, pos, cur, items>>

(***************************************************************************)
(* parse as a function of the lines of a stream that ends in end-of-file:  *)
(* filter, map(parse), collect, and the fold into the result.              *)
(***************************************************************************)
resolv_parse_of(lines) ==
    LET kept == SelectSeq(lines, resolv_keep)
        items_ == collect_results([i \in 1..Len(kept) |-> ConfigItem_from_str(kept[i])])
    IN  IF items_.ok THEN Ok(from_items(items_.val[1])) ELSE items_

hosts_parse_of(lines) ==
    LET kept == SelectSeq(lines, hosts_keep)
    IN  collect_results([i \in 1..Len(kept) |-> Host_from_str(kept[i])])

Next ==
    \/ lines_next
    \/ resolv_parse_line
    \/ resolv_parse_return
    \/ hosts_parse_line
    \/ hosts_parse_return

Spec == Init /\ [][Next]_vars

\* parse runs to its end and is not suspended: a step that can be taken is taken.
FairSpec == Spec /\ WF_vars(Next)

(***************************************************************************)
(* The vocabulary of the claims.                                           *)
(***************************************************************************)
\* The input as lines of text; a line that failed to read or to decode
\* stands as an empty line.
TextLines == [i \in 1..Len(stream) |-> IF stream[i].ok THEN stream[i].text ELSE <<>>]

\* A line that is empty, starts with "#" or starts with a space.
Noise(line) == line = <<>> \/ Head(line) = "#" \/ Head(line) = " "

NotNoise(line) == ~Noise(line)

\* The surviving lines, in file order.
Surviving == SelectSeq(TextLines, NotNoise)

\* What the parser in use makes of one line.
LineResult(line) ==
    IF parser = "resolv" THEN ConfigItem_from_str(line) ELSE Host_from_str(line)

Malformed(line) == ~LineResult(line).ok

MalformedAt == {k \in 1..Len(Surviving) : Malformed(Surviving[k])}

\* The index, among the surviving lines, of the first malformed one.
FirstMalformed == CHOOSE k \in MalformedAt : \A j \in MalformedAt : k <= j

ParseOf(lines) ==
    IF parser = "resolv" THEN resolv_parse_of(lines) ELSE hosts_parse_of(lines)

Keywords == {"nameserver", "domain", "search", "sortlist", "options"}

\* The directive a line begins with, "" when it begins with none.
Kind(line) == IF line # <<>> /\ Head(line) \in Keywords THEN Head(line) ELSE ""

\* The whitespace-separated tokens after the directive of a line.
Tokens(line) == split_whitespace(Tail(line))

RECURSIVE Flatten(_)
Flatten(ss) == IF ss = <<>> THEN <<>> ELSE Head(ss) \o Flatten(Tail(ss))

Returned == pc = "done"

(***************************************************************************)
(* C1.  The payload each surviving line contributes to each sequence of    *)
(* Config.  "A `domain` line" is read as a line that begins with the       *)
(* directive; whether the directive must be a whole word is claim C4.      *)
(***************************************************************************)
NameserversOf(line) ==
    IF Kind(line) = "nameserver" /\ Tokens(line) # <<>>
    THEN <<IpAddr(Tokens(line)[1][1])>>
    ELSE <<>>

SearchDomainsOf(line) ==
    IF Kind(line) = "domain" THEN <<trim(Tail(line))>>
    ELSE IF Kind(line) = "search" THEN Tokens(line)
    ELSE <<>>

SortListOf(line) ==
    IF Kind(line) = "sortlist"
    THEN [i \in 1..Len(Tokens(line)) |-> IPPair_from_str(Tokens(line)[i]).val[1]]
    ELSE <<>>

OptionsOf(line) ==
    IF Kind(line) = "options"
    THEN [i \in 1..Len(Tokens(line)) |-> ConfigOption_from_str(Tokens(line)[i]).val[1]]
    ELSE <<>>

\* C1: when dns::resolv::parse succeeds, each of the four sequences of the
\* Config is the concatenation, in file order, of what the surviving lines of
\* its kind carry: one address per nameserver line, one entry per domain line
\* and per token of a search line, one IPPair per sortlist token, one
\* ConfigOption per options token; nothing is dropped, deduplicated,
\* reordered or overwritten.
C1_FileOrderConcatenation ==
    (Returned /\ parser = "resolv" /\ result.ok) =>
        LET config == result.val[1]
            n == Len(Surviving)
        IN  /\ config.nameservers = Flatten([k \in 1..n |-> NameserversOf(Surviving[k])])
            /\ config.search_domains =
                   Flatten([k \in 1..n |-> SearchDomainsOf(Surviving[k])])
            /\ config.sort_list = Flatten([k \in 1..n |-> SortListOf(Surviving[k])])
            /\ config.options = Flatten([k \in 1..n |-> OptionsOf(Surviving[k])])

\* A domain line followed by a search line of two domains: three entries.
C1_Witness ==
    /\ Returned /\ parser = "resolv" /\ result.ok
    /\ Len(Surviving) = 2
    /\ Kind(Surviving[1]) = "domain"
    /\ Kind(Surviving[2]) = "search"
    /\ Len(result.val[1].search_domains) = 3
    /\ result.val[1].search_domains[1] # <<>>
    /\ result.val[1].search_domains[1] # result.val[1].search_domains[2]

(***************************************************************************)
(* C2.                                                                     *)
(***************************************************************************)
\* The error of the first token of a sortlist or options line that does not
\* parse.
TokenResult(line, tok) ==
    IF Kind(line) = "sortlist" THEN IPPair_from_str(tok) ELSE ConfigOption_from_str(tok)

BadTokens(line) ==
    {i \in 1..Len(Tokens(line)) : ~TokenResult(line, Tokens(line)[i]).ok}

FirstBadToken(line) ==
    Tokens(line)[CHOOSE i \in BadTokens(line) : \A j \in BadTokens(line) : i <= j]

\* C2: in both parsers, when a surviving line is malformed parse returns an
\* error and no Config or Host sequence, and the error is that of the first
\* malformed line in file order, and within a sortlist or options line that
\* of its first malformed token.
C2_FirstErrorNoPartialResult ==
    (Returned /\ MalformedAt # {}) =>
        LET line == Surviving[FirstMalformed]
        IN  /\ ~result.ok
            /\ result.val = None
            /\ result.err = LineResult(line).err
            /\ (parser = "resolv" /\ Kind(line) \in {"sortlist", "options"}) =>
                   /\ BadTokens(line) # {}
                   /\ result.err = TokenResult(line, FirstBadToken(line)).err

\* Two malformed lines that raise different errors.
C2_Witness ==
    /\ Returned
    /\ Cardinality(MalformedAt) = 2
    /\ LineResult(Surviving[1]).err # LineResult(Surviving[2]).err
    /\ result.err = LineResult(Surviving[1]).err

(***************************************************************************)
(* C3.                                                                     *)
(***************************************************************************)
\* C3: in both parsers the outcome of parsing an input, the result or the
\* error, is the outcome of parsing it with every line removed that is
\* empty, starts with "#" or starts with a space, whatever else the line
\* holds.
C3_NoiseLinesIgnored ==
    Returned => result = ParseOf(Surviving)

\* A noise line whose content would not parse, among lines that did.
C3_Witness ==
    /\ Returned /\ result.ok
    /\ Len(items) >= 1
    /\ \E i \in 1..Len(stream) :
           /\ Len(TextLines[i]) >= 2
           /\ Noise(TextLines[i])
           /\ Malformed(Tail(TextLines[i]))

(***************************************************************************)
(* C4.                                                                     *)
(***************************************************************************)
\* The first whitespace-delimited word of a line is one of the directives.
LeadingWordIsKeyword(line) ==
    /\ split_whitespace(line) # <<>>
    /\ \E kw \in Keywords : split_whitespace(line)[1] = <<kw>>

\* C4: in dns::resolv::parse a surviving line whose first word is not exactly
\* nameserver, domain, search, sortlist or options is never accepted as a
\* directive, and makes the parse fail with UnknownOption carrying the line.
C4_UnknownKeywordRejected ==
    (Returned /\ parser = "resolv") =>
        /\ \A k \in 1..Len(items) : LeadingWordIsKeyword(Surviving[k])
        /\ (~result.ok /\ ~LeadingWordIsKeyword(Surviving[Len(items) + 1])) =>
               result = Err(UnknownOption(Surviving[Len(items) + 1]))

(***************************************************************************)
(* C5.                                                                     *)
(***************************************************************************)
ValidAddr(tok) == Len(tok) = 1 /\ tok[1] \in IpAtoms

HostLineOk(line) ==
    split_whitespace(line) # <<>> /\ ValidAddr(split_whitespace(line)[1])

ExpectedHost(line) ==
    Host(IpAddr(split_whitespace(line)[1][1]), Tail(split_whitespace(line)))

\* C5: hosts::parse yields one Host per surviving line, in file order: the
\* first token is the address, the remaining tokens are the names as written
\* (none is required, none is deduplicated); a first token that is no address
\* fails the whole parse with IPAddrParseError.
C5_OneHostPerLine ==
    (Returned /\ parser = "hosts") =>
        IF \A k \in 1..Len(Surviving) : HostLineOk(Surviving[k])
        THEN result = Ok([k \in 1..Len(Surviving) |-> ExpectedHost(Surviving[k])])
        ELSE result = Err(IPAddrParseError)

\* A host without names and a host with the same name twice.
C5_Witness ==
    /\ Returned /\ parser = "hosts" /\ result.ok
    /\ \E i, j \in 1..Len(result.val[1]) :
           /\ result.val[1][i].names = <<>>
           /\ Len(result.val[1][j].names) = 2
           /\ result.val[1][j].names[1] = result.val[1][j].names[2]

(***************************************************************************)
(* C6.                                                                     *)
(***************************************************************************)
FlagKeys ==
    { "debug", "rotate", "no-aaaa", "no-check-names", "inet6", "ip6-bytestring",
      "ip6-dotint", "no-ip6-dotint", "edns0", "single-request",
      "single-request-reopen", "no-tld-query", "use-vc", "no-reload", "trust-ad" }

NumberKeys == {"ndots", "timeout", "attempts"}

\* A non-negative integer: decimal digits, after a "+" or not.
IsNumber(s) ==
    LET digits == IF s # <<>> /\ Head(s) = "+" THEN Tail(s) ELSE s
    IN  digits # <<>> /\ \A i \in 1..Len(digits) : digits[i] \in DigitAtoms

\* Exactly a flag key, or key:N.
ExactOption(tok) ==
    \/ Len(tok) = 1 /\ tok[1] \in FlagKeys
    \/ /\ Len(tok) >= 3
       /\ tok[1] \in NumberKeys
       /\ tok[2] = ":"
       /\ IsNumber(SubSeq(tok, 3, Len(tok)))

\* C6: a token of an options line is accepted only if it is exactly one of the
\* fifteen flag keys or ndots:N, timeout:N, attempts:N; an options line with
\* any other token aborts the parse with UnknownOption or ParseIntError.
C6_OptionTokensExact ==
    (Returned /\ parser = "resolv") =>
        /\ \A k \in 1..Len(items) :
               Kind(Surviving[k]) = "options" =>
                   \A i \in 1..Len(Tokens(Surviving[k])) :
                       ExactOption(Tokens(Surviving[k])[i])
        /\ (~result.ok /\ Kind(Surviving[Len(items) + 1]) = "options") =>
               result.err[1].kind \in {"UnknownOption", "ParseIntError"}

(***************************************************************************)
(* C7.                                                                     *)
(***************************************************************************)
SlashesOf(tok) == {i \in 1..Len(tok) : tok[i] = "/"}

NthSlash(tok, n) ==
    CHOOSE i \in SlashesOf(tok) : Cardinality({j \in SlashesOf(tok) : j < i}) = n - 1

\* The text before the first slash, the whole token when it has none.
AddrPart(tok) ==
    IF SlashesOf(tok) = {} THEN tok ELSE SubSeq(tok, 1, NthSlash(tok, 1) - 1)

\* The text after the first slash, up to the second when there is one.
MaskPart(tok) ==
    SubSeq(tok, NthSlash(tok, 1) + 1,
           IF Cardinality(SlashesOf(tok)) >= 2 THEN NthSlash(tok, 2) - 1 ELSE Len(tok))

PairValid(tok) ==
    ValidAddr(AddrPart(tok)) /\ (SlashesOf(tok) # {} => ValidAddr(MaskPart(tok)))

ExpectedPair(tok) ==
    IPPair(IpAddr(AddrPart(tok)[1]),
           IF SlashesOf(tok) = {} THEN None ELSE Some(IpAddr(MaskPart(tok)[1])))

ExpectedPairs(line) ==
    [i \in 1..Len(Tokens(line)) |-> ExpectedPair(Tokens(line)[i])]

AllPairsValid(line) == \A i \in 1..Len(Tokens(line)) : PairValid(Tokens(line)[i])

\* C7: a sortlist token addr gives IPPair(addr, None) and a token addr/mask
\* gives IPPair(addr, Some(mask)), further "/" segments being ignored; addr and,
\* when a slash is present, mask must be valid addresses, otherwise the whole
\* parse fails with IPAddrParseError.
C7_SortlistTokens ==
    (Returned /\ parser = "resolv") =>
        /\ \A k \in 1..Len(items) :
               Kind(Surviving[k]) = "sortlist" =>
                   /\ AllPairsValid(Surviving[k])
                   /\ items[k] = ConfigItem("SortList", ExpectedPairs(Surviving[k]))
        /\ (~result.ok /\ Kind(Surviving[Len(items) + 1]) = "sortlist") =>
               /\ ~AllPairsValid(Surviving[Len(items) + 1])
               /\ result = Err(IPAddrParseError)
        /\ result.ok =>
               result.val[1].sort_list =
                   Flatten([k \in 1..Len(items) |->
                               IF Kind(Surviving[k]) = "sortlist"
                               THEN ExpectedPairs(Surviving[k]) ELSE <<>>])

\* A pair with a mask, taken from a token with a second slash, and a pair
\* without.
C7_Witness ==
    /\ Returned /\ parser = "resolv" /\ result.ok
    /\ \E k \in 1..Len(Surviving) :
           /\ Kind(Surviving[k]) = "sortlist"
           /\ \E i \in 1..Len(Tokens(Surviving[k])) :
                  Cardinality(SlashesOf(Tokens(Surviving[k])[i])) = 2
    /\ \E i, j \in 1..Len(result.val[1].sort_list) :
           /\ result.val[1].sort_list[i].mask # None
           /\ result.val[1].sort_list[j].mask = None

(***************************************************************************)
(* C8.                                                                     *)
(***************************************************************************)
\* C8: in both parsers a line that failed to read or to decode is not
\* returned as IOError and does not end the parse: the outcome is that of the
\* stream with an empty line in the place of each failed one, the lines after
\* it parsed as usual.
C8_FailedLineIsEmptyLine ==
    Returned =>
        /\ result.ok \/ result.err[1].kind # "IOError"
        /\ result = ParseOf(TextLines)

\* A line that failed to decode, and a line after it that was parsed.
C8_Witness ==
    /\ Returned /\ result.ok
    /\ Len(stream) = 2
    /\ ~stream[1].ok /\ stream[1].text # <<>>
    /\ stream[2].ok
    /\ Len(items) = 1

(***************************************************************************)
(* C9.                                                                     *)
(***************************************************************************)
\* C9: every call of parse returns, whatever the reads of the stream return.
C9_ParseReturns == <>(pc = "done")

(***************************************************************************)
(* C10.                                                                    *)
(***************************************************************************)
NotIndented(line) == ~(line # <<>> /\ Head(line) \in {" ", "\t"})

\* C10: both parsers discard a line that starts with a space or with a tab:
\* the outcome is that of the input without these lines.
C10_IndentedLinesDiscarded ==
    Returned => result = ParseOf(SelectSeq(TextLines, NotIndented))
====
